---- MODULE Spec2Model ----
(***************************************************************************)
(* Mock order-management API (src/server.js): an Express application with  *)
(* two in-memory Maps, `orders` and `idempotencyKeys`, a status-transition *)
(* table, an authentication middleware, a create-order validation          *)
(* middleware and the route handlers.                                      *)
(*                                                                         *)
(* Node runs every handler chain (authenticateToken -> validateCreateOrder *)
(* -> route callback) to completion on one thread: no handler awaits, so   *)
(* one request's chain is one atomic step.  Requests of several clients    *)
(* are in flight at once (a slot per client) and are handled in any order. *)
(*                                                                         *)
(* Units: timestamps are integer clock readings; unit prices are in mills  *)
(* (thousandths), totalAmount in cents.  An order identifier n stands for  *)
(* `ord-<the n-th uuid drawn>`.  The empty string stands for a missing or  *)
(* empty (falsy) string field.                                             *)
(***************************************************************************)
EXTENDS Integers, Sequences, FiniteSets, TLC

VARIABLES
  orders,           \* the Map of server.js:15
  idempotencyKeys,  \* the Map of server.js:16
  uuidCount,        \* how many uuids uuidv4 has issued
  now,              \* the reading of new Date()
  listening,        \* the listen callback has run
  slots,            \* per client: its last request and the response to it
  original          \* history: per key, the order body answered with 201

vars == <<orders, idempotencyKeys, uuidCount, now, listening, slots, original>>

(* ------------------------------ bounds -------------------------------- *)

\* Largest clock reading.
MaxTime == 1

\* Largest number of uuids drawn (3 of them by seedData).
MaxUuid == 5

\* Number of clients with a request in flight at once in SpecConc.
NConc == 2

(* ---------------------------- little helpers --------------------------- *)

Range(s) == {s[i] : i \in 1..Len(s)}

RECURSIVE SumSeq(_)
SumSeq(s) == IF s = <<>> THEN 0 ELSE Head(s) + SumSeq(Tail(s))

(* ------------------------------ the data ------------------------------ *)

\* server.js:266
validStatuses ==
  <<"pending", "confirmed", "processing", "shipped", "delivered", "cancelled">>

\* Mutant: a pending order may skip confirmation.
TransitionsSkipConfirm ==
  [s \in Range(validStatuses) |->
     CASE s = "pending"    -> <<"confirmed", "processing", "cancelled">>
       [] s = "confirmed"  -> <<"processing", "cancelled">>
       [] s = "processing" -> <<"shipped", "cancelled">>
       [] s = "shipped"    -> <<"delivered">>
       [] s = "delivered"  -> <<>>
       [] s = "cancelled"  -> <<>>]

\* Mutant: a cancelled order may be reopened.
TransitionsReopen ==
  [s \in Range(validStatuses) |->
     CASE s = "pending"    -> <<"confirmed", "cancelled">>
       [] s = "confirmed"  -> <<"processing", "cancelled">>
       [] s = "processing" -> <<"shipped", "cancelled">>
       [] s = "shipped"    -> <<"delivered">>
       [] s = "delivered"  -> <<>>
       [] s = "cancelled"  -> <<"pending">>]

\* Mutant: a shipped order may be cancelled.
TransitionsCancelShipped ==
  [s \in Range(validStatuses) |->
     CASE s = "pending"    -> <<"confirmed", "cancelled">>
       [] s = "confirmed"  -> <<"processing", "cancelled">>
       [] s = "processing" -> <<"shipped", "cancelled">>
       [] s = "shipped"    -> <<"delivered", "cancelled">>
       [] s = "delivered"  -> <<>>
       [] s = "cancelled"  -> <<>>]

\* Mutant: a shipped order may go back to processing.
TransitionsUnship ==
  [s \in Range(validStatuses) |->
     CASE s = "pending"    -> <<"confirmed", "cancelled">>
       [] s = "confirmed"  -> <<"processing", "cancelled">>
       [] s = "processing" -> <<"shipped", "cancelled">>
       [] s = "shipped"    -> <<"delivered", "processing">>
       [] s = "delivered"  -> <<>>
       [] s = "cancelled"  -> <<>>]

\* Mutant: a confirmed order may be confirmed again.
TransitionsReconfirm ==
  [s \in Range(validStatuses) |->
     CASE s = "pending"    -> <<"confirmed", "cancelled">>
       [] s = "confirmed"  -> <<"confirmed", "processing", "cancelled">>
       [] s = "processing" -> <<"shipped", "cancelled">>
       [] s = "shipped"    -> <<"delivered">>
       [] s = "delivered"  -> <<>>
       [] s = "cancelled"  -> <<>>]

\* server.js:20-27
STATUS_TRANSITIONS ==
  [s \in Range(validStatuses) |->
     CASE s = "pending"    -> <<"confirmed", "cancelled">>
       [] s = "confirmed"  -> <<"processing", "cancelled">>
       [] s = "processing" -> <<"shipped", "cancelled">>
       [] s = "shipped"    -> <<"delivered">>
       [] s = "delivered"  -> <<>>
       [] s = "cancelled"  -> <<>>]

\* Array.prototype.includes
includes(arr, v) == \E i \in 1..Len(arr) : arr[i] = v

\* Mutant: the guard looks at the status the order was created with.
canTransitionFromInitial(currentStatus, status) ==
  includes(STATUS_TRANSITIONS["pending"], status)

\* The guard of server.js:279.
canTransition(currentStatus, status) ==
  includes(STATUS_TRANSITIONS[currentStatus], status)

\* A JSON line item of a request: `fields` are the keys present in the body.
Item(pid, q, p) ==
  [productId |-> pid, quantity |-> q, unitPrice |-> p,
   fields |-> {"productId", "quantity", "unitPrice"}]

\* The `items` member of a request body: isArray is FALSE when it is absent.
NoItems == [isArray |-> FALSE, elems |-> <<>>]
Items(s) == [isArray |-> TRUE, elems |-> s]

\* A JavaScript number that may be NaN.
NaN == [nan |-> TRUE, n |-> 0]
Num(n) == [nan |-> FALSE, n |-> n]

\* A query parameter read as a number: absent (undefined), or its text as the
\* sequence of its characters.
NoParam == [given |-> FALSE, text |-> <<>>]
Param(text) == [given |-> TRUE, text |-> text]

\* The text of a date parameter: absent or empty, a calendar date
\* (YYYY-MM-DD, `v` the day number), an ISO instant (`v` the clock reading),
\* or text that is no date.
NoDate == [kind |-> "absent", v |-> 0]
DateText(day) == [kind |-> "date", v |-> day]
InstantText(t) == [kind |-> "instant", v |-> t]
JunkText == [kind |-> "junk", v |-> 0]

\* A request; the members a route does not read keep these defaults.
NoReq ==
  [op |-> "none", authorization |-> <<>>, idempotencyKey |-> "",
   customerId |-> "", items |-> NoItems, orderId |-> 0, status |-> "",
   reason |-> "", startDate |-> NoDate, endDate |-> NoDate,
   limit |-> NoParam, offset |-> NoParam]

\* A response: status code, error code and message of the error body (the
\* message as the tuple of its parts), the order(s) of a success body,
\* `health` for the health body, totalCount, limit and offset of a search.
NoRes ==
  [code |-> 0, error |-> "", message |-> <<>>, body |-> <<>>, health |-> "",
   totalCount |-> 0, limit |-> Num(0), offset |-> Num(0)]

ErrorRes(c, e, m) == [NoRes EXCEPT !.code = c, !.error = e, !.message = m]
OrderRes(c, o) == [NoRes EXCEPT !.code = c, !.body = <<o>>]

\* A client's slot: its last request, the response (NoRes while the request is
\* in flight) and `raced`, a history flag: when the request was sent, a
\* request on the same idempotency key or the same order was in flight.
IdleSlot == [req |-> NoReq, res |-> NoRes, raced |-> FALSE]

(* ------------------------ the Maps (server.js:15-16) -------------------- *)

\* orders is a Map: a sequence of order records in insertion order, at most
\* one per orderId.
OrdersHas(ords, id) == \E i \in 1..Len(ords) : ords[i].orderId = id
OrdersIndex(ords, id) == CHOOSE i \in 1..Len(ords) : ords[i].orderId = id
OrdersGet(ords, id) == ords[OrdersIndex(ords, id)]
\* Mutant: the value of a present key is written over the first entry.
OrdersSetFirst(ords, id, o) ==
  IF OrdersHas(ords, id) THEN [ords EXCEPT ![1] = o] ELSE Append(ords, o)

\* Map.prototype.set: replaces the value of a present key where it stands,
\* appends a new key.
OrdersSet(ords, id, o) ==
  IF OrdersHas(ords, id)
    THEN [ords EXCEPT ![OrdersIndex(ords, id)] = o]
    ELSE Append(ords, o)

\* idempotencyKeys is a Map: a function from the keys recorded to orderIds.
KeysHas(keys, k) == k \in DOMAIN keys
\* Mutant: the mapping is not recorded.
KeysSetDropped(keys, k, id) == keys

\* Mutant: recording a key forgets the keys recorded before.
KeysSetEvicts(keys, k, id) == [x \in {k} |-> id]

\* Mutant: the key is recorded with an identifier that was never stored.
KeysSetNextId(keys, k, id) ==
  [x \in (DOMAIN keys) \cup {k} |-> IF x = k THEN id + 1 ELSE keys[x]]

KeysSet(keys, k, id) == [x \in (DOMAIN keys) \cup {k} |-> IF x = k THEN id ELSE keys[x]]

(* -------------------- authenticateToken (server.js:31-51) --------------- *)

\* authHeader && authHeader.split(' ')[1]: the header is held as its
\* space-separated pieces; "" is a missing or empty token.
TokenOf(authHeader) == IF Len(authHeader) >= 2 THEN authHeader[2] ELSE ""

\* Mutant: a header is enough, whether or not a token follows the scheme.
authenticateTokenHeaderOnly(req) ==
  IF Len(req.authorization) = 0
    THEN ErrorRes(401, "UNAUTHORIZED", <<"Authentication token is required">>)
    ELSE NoRes

\* The 401 response, or NoRes for next().
authenticateToken(req) ==
  IF TokenOf(req.authorization) = ""
    THEN ErrorRes(401, "UNAUTHORIZED", <<"Authentication token is required">>)
    ELSE NoRes

(* ------------------- validateCreateOrder (server.js:55-96) -------------- *)

Truthy(item, f) ==
  /\ f \in item.fields
  /\ IF f = "productId" THEN item.productId # "" ELSE item[f] # 0

\* Mutant: only absent fields count as missing, a 0 does not.
ItemMissingAbsentOnly(item) ==
  item.fields # {"productId", "quantity", "unitPrice"} \/ item.productId = ""

ItemMissing(item) ==
  ~Truthy(item, "productId") \/ ~Truthy(item, "quantity") \/ ~Truthy(item, "unitPrice")

ItemOutOfRange(item) == item.quantity <= 0 \/ item.unitPrice < 0

\* The loop of server.js:80-93: the response of the first failing item.
RECURSIVE ValidateItems(_)
ValidateItems(elems) ==
  IF elems = <<>> THEN NoRes
  ELSE IF ItemMissing(Head(elems))
    THEN ErrorRes(400, "VALIDATION_ERROR",
                  <<"Each item must have productId, quantity, and unitPrice">>)
  ELSE IF ItemOutOfRange(Head(elems))
    THEN ErrorRes(400, "VALIDATION_ERROR",
                  <<"Quantity must be positive and unitPrice must be non-negative">>)
  ELSE ValidateItems(Tail(elems))

\* Mutant: the customer is checked before the idempotency key.
validateCreateOrderCustomerFirst(req) ==
  IF req.customerId = ""
    THEN ErrorRes(400, "VALIDATION_ERROR", <<"Customer ID is required">>)
  ELSE IF req.idempotencyKey = ""
    THEN ErrorRes(400, "VALIDATION_ERROR", <<"Idempotency-Key header is required">>)
  ELSE IF ~req.items.isArray \/ Len(req.items.elems) = 0
    THEN ErrorRes(400, "VALIDATION_ERROR", <<"At least one item is required">>)
  ELSE ValidateItems(req.items.elems)

\* The 400 response, or NoRes for next().
validateCreateOrder(req) ==
  IF req.idempotencyKey = ""
    THEN ErrorRes(400, "VALIDATION_ERROR", <<"Idempotency-Key header is required">>)
  ELSE IF req.customerId = ""
    THEN ErrorRes(400, "VALIDATION_ERROR", <<"Customer ID is required">>)
  ELSE IF ~req.items.isArray \/ Len(req.items.elems) = 0
    THEN ErrorRes(400, "VALIDATION_ERROR", <<"At least one item is required">>)
  ELSE ValidateItems(req.items.elems)

(* ------------------ calculateTotal, createOrder (100-124) --------------- *)

\* server.js:100-102, in mills.
calculateTotal(elems) ==
  SumSeq([i \in 1..Len(elems) |-> elems[i].quantity * elems[i].unitPrice])

\* Number(x.toFixed(2)) of a non-negative amount, in cents: toFixed rounds
\* the double to the nearest cent.  An amount that ends in 5 mills lies
\* between two cents and its double decides: TiesBelow lists the amounts of
\* the inputs whose double is below the decimal (1.005 is stored as
\* 1.00499999999999989...); every other one rounds up.
TiesBelow == {1005}

toFixed2(mills) ==
  IF mills \in TiesBelow THEN mills \div 10 ELSE (mills + 5) \div 10

\* Mutant: the generator repeats itself after four identifiers.
uuidv4Repeats(count) == (count % 4) + 1

\* uuidv4(): the n-th uuid drawn is n; no two draws agree.
uuidv4(count) == count + 1

\* items.map(...) of server.js:114-118.
CopyItems(elems) ==
  [i \in 1..Len(elems) |->
     [productId |-> elems[i].productId, quantity |-> elems[i].quantity,
      unitPrice |-> elems[i].unitPrice]]

\* Mutant: an order is created confirmed.
NewOrderConfirmed(id, customerId, elems, t) ==
  [orderId |-> id, customerId |-> customerId, placementDate |-> t,
   lastUpdated |-> t, status |-> "confirmed", items |-> CopyItems(elems),
   totalAmount |-> toFixed2(calculateTotal(elems)), statusReason |-> ""]

\* The order record built at server.js:108-120; statusReason "" is no reason.
NewOrder(id, customerId, elems, t) ==
  [orderId |-> id, customerId |-> customerId, placementDate |-> t,
   lastUpdated |-> t, status |-> "pending", items |-> CopyItems(elems),
   totalAmount |-> toFixed2(calculateTotal(elems)), statusReason |-> ""]

\* createOrder(customerId, items): the order and the store after orders.set.
createOrder(ords, count, customerId, elems, t) ==
  LET id == uuidv4(count)
      order == NewOrder(id, customerId, elems, t)
  IN  [order |-> order, orders |-> OrdersSet(ords, id, order)]

(* ------------------------ seedData (server.js:325-366) ------------------ *)

sampleOrders ==
  << [customerId |-> "cust-12345",
      items |-> <<Item("prod-001", 2, 29990), Item("prod-002", 1, 15500)>>],
     [customerId |-> "cust-12345",
      items |-> <<Item("prod-003", 1, 99990)>>],
     [customerId |-> "cust-67890",
      items |-> <<Item("prod-001", 3, 29990)>>] >>

\* One round of the forEach of server.js:352-363; index counts from 0.
SeedOne(ords, count, index, t) ==
  LET made == createOrder(ords, count, sampleOrders[index + 1].customerId,
                          sampleOrders[index + 1].items, t)
      order == IF index = 1 THEN [made.order EXCEPT !.status = "confirmed"]
               ELSE IF index = 2 THEN [made.order EXCEPT !.status = "shipped"]
               ELSE made.order
  IN  OrdersSet(made.orders, order.orderId, order)

\* The listen callback (server.js:370-384) runs seedData once, before any
\* request is served.  The three orders are created within one callback and
\* their three readings of new Date() are taken to be the same reading.  The
\* status overrides read no clock; time may have passed when the last of
\* them is made and the callback returns, by the reading `latest` at most.
seedDataBy(latest) ==
  /\ ~listening
  /\ listening' = TRUE
  /\ orders' = SeedOne(SeedOne(SeedOne(orders, uuidCount, 0, now),
                               uuidCount + 1, 1, now),
                       uuidCount + 2, 2, now)
  /\ uuidCount' = uuidCount + 3
  /\ now' \in now..latest
  /\ UNCHANGED <<idempotencyKeys, slots, original>>

seedData == seedDataBy(MaxTime)

(* ------------------------------- the clock ----------------------------- *)

\* Time passes between two readings of new Date().
Tick ==
  /\ now < MaxTime
  /\ now' = now + 1
  /\ UNCHANGED <<orders, idempotencyKeys, uuidCount, listening, slots, original>>

(* ------------------------------ the routes ----------------------------- *)

SameTarget(r1, r2) ==
  /\ r1.op = r2.op
  /\ \/ r1.op = "create" /\ r1.idempotencyKey = r2.idempotencyKey
     \/ r1.op = "status" /\ r1.orderId = r2.orderId

\* A client sends request r: it is in flight until its handler has run.
Send(c, r) ==
  /\ listening
  /\ slots[c].req = NoReq \/ slots[c].res # NoRes
  /\ slots' = [slots EXCEPT ![c] =
       [req |-> r, res |-> NoRes,
        raced |-> \E d \in DOMAIN slots \ {c} :
                    /\ slots[d].req # NoReq
                    /\ slots[d].res = NoRes
                    /\ SameTarget(slots[d].req, r)]]
  /\ UNCHANGED <<orders, idempotencyKeys, uuidCount, now, listening, original>>

InFlight(c, op) == slots[c].req.op = op /\ slots[c].res = NoRes

Reply(c, res) == slots' = [slots EXCEPT ![c].res = res]

\* GET /api/v1/health (server.js:130-135).
Health(c) ==
  /\ InFlight(c, "health")
  /\ Reply(c, [NoRes EXCEPT !.code = 200, !.health = "healthy"])
  /\ UNCHANGED <<orders, idempotencyKeys, uuidCount, now, listening, original>>

\* Mutant: the replay answers with the order stored last.
existingOrderLast(ords, keys, req) == ords[Len(ords)]

\* Mutant: the replay answers with an order rebuilt from the request.
existingOrderFromPayload(ords, keys, req) ==
  [OrdersGet(ords, keys[req.idempotencyKey]) EXCEPT
     !.customerId = req.customerId, !.items = CopyItems(req.items.elems),
     !.totalAmount = toFixed2(calculateTotal(req.items.elems))]

\* The replay branch of server.js:145-147: the stored order of the key.
existingOrder(ords, keys, req) == OrdersGet(ords, keys[req.idempotencyKey])

\* POST /api/v1/orders (server.js:139-161), with its two middlewares.
PostOrders(c) ==
  /\ InFlight(c, "create")
  /\ LET req == slots[c].req
         auth == authenticateToken(req)
         valid == validateCreateOrder(req)
     IN  IF auth # NoRes THEN
           /\ Reply(c, auth)
           /\ UNCHANGED <<orders, idempotencyKeys, uuidCount, original>>
         ELSE IF valid # NoRes THEN
           /\ Reply(c, valid)
           /\ UNCHANGED <<orders, idempotencyKeys, uuidCount, original>>
         ELSE IF KeysHas(idempotencyKeys, req.idempotencyKey) THEN
           /\ Reply(c, OrderRes(200, existingOrder(orders, idempotencyKeys, req)))
           /\ UNCHANGED <<orders, idempotencyKeys, uuidCount, original>>
         ELSE
           /\ uuidCount < MaxUuid
           /\ LET made == createOrder(orders, uuidCount, req.customerId,
                                      req.items.elems, now)
              IN  /\ orders' = made.orders
                  /\ idempotencyKeys' =
                       KeysSet(idempotencyKeys, req.idempotencyKey, made.order.orderId)
                  /\ Reply(c, OrderRes(201, made.order))
                  /\ original' = [k \in DOMAIN original \cup {req.idempotencyKey} |->
                       IF k = req.idempotencyKey THEN made.order ELSE original[k]]
           /\ uuidCount' = uuidCount + 1
  /\ UNCHANGED <<now, listening>>

\* Mutant: the order is answered as it was created, not as it is now.
GetOrderAsCreated(c) ==
  /\ InFlight(c, "get")
  /\ LET req == slots[c].req
         auth == authenticateToken(req)
     IN  IF auth # NoRes THEN Reply(c, auth)
         ELSE IF ~OrdersHas(orders, req.orderId)
           THEN Reply(c, ErrorRes(404, "NOT_FOUND", <<"Order not found">>))
         ELSE Reply(c, OrderRes(200, [OrdersGet(orders, req.orderId) EXCEPT
                                        !.status = "pending"]))
  /\ UNCHANGED <<orders, idempotencyKeys, uuidCount, now, listening, original>>

\* GET /api/v1/orders/:orderId (server.js:165-176).
GetOrder(c) ==
  /\ InFlight(c, "get")
  /\ LET req == slots[c].req
         auth == authenticateToken(req)
     IN  IF auth # NoRes THEN Reply(c, auth)
         ELSE IF ~OrdersHas(orders, req.orderId)
           THEN Reply(c, ErrorRes(404, "NOT_FOUND", <<"Order not found">>))
         ELSE Reply(c, OrderRes(200, OrdersGet(orders, req.orderId)))
  /\ UNCHANGED <<orders, idempotencyKeys, uuidCount, now, listening, original>>

(* ---------------- GET /api/v1/orders (server.js:180-244) ---------------- *)

Digits == <<"0", "1", "2", "3", "4", "5", "6", "7", "8", "9">>
IsDigit(ch) == includes(Digits, ch)
DigitValue(ch) == (CHOOSE i \in 1..Len(Digits) : Digits[i] = ch) - 1

\* The longest prefix of decimal digits as a number; NaN when there is none.
RECURSIVE ParseDigits(_, _, _)
ParseDigits(text, acc, seen) ==
  IF text = <<>> \/ ~IsDigit(Head(text))
    THEN IF seen THEN Num(acc) ELSE NaN
    ELSE ParseDigits(Tail(text), acc * 10 + DigitValue(Head(text)), TRUE)

RECURSIVE SkipSpaces(_)
SkipSpaces(text) ==
  IF text # <<>> /\ Head(text) = " " THEN SkipSpaces(Tail(text)) ELSE text

\* parseInt of a string: leading blanks, an optional sign, then digits;
\* whatever follows the digits is ignored.
parseIntText(text) ==
  LET t == SkipSpaces(text)
  IN  IF t # <<>> /\ Head(t) = "-"
        THEN LET m == ParseDigits(Tail(t), 0, FALSE)
             IN  IF m.nan THEN NaN ELSE Num(0 - m.n)
      ELSE IF t # <<>> /\ Head(t) = "+"
        THEN ParseDigits(Tail(t), 0, FALSE)
      ELSE ParseDigits(t, 0, FALSE)

\* parseInt(limit) with `limit = 20` / `offset = 0` of server.js:181: the
\* default takes the place of an absent parameter only.
parseInt(param, default) ==
  IF param.given THEN parseIntText(param.text) ELSE Num(default)

\* Math.min(x, y) for a number y.
MathMin(x, y) == IF x.nan THEN NaN ELSE Num(IF x.n < y THEN x.n ELSE y)

\* x + y of two numbers.
Plus(x, y) == IF x.nan \/ y.nan THEN NaN ELSE Num(x.n + y.n)

\* The index arithmetic of Array.prototype.slice: NaN counts as 0, a
\* negative index counts from the end, and the result is kept within 0..len.
SliceIndex(x, len) ==
  LET i == IF x.nan THEN 0 ELSE x.n
  IN  IF i < 0 THEN (IF len + i > 0 THEN len + i ELSE 0)
      ELSE IF i < len THEN i ELSE len

\* arr.slice(start, end)
slice(arr, start, end) ==
  SubSeq(arr, SliceIndex(start, Len(arr)) + 1, SliceIndex(end, Len(arr)))

\* The number of clock readings in a calendar day.
DayLength == 2

\* Mutant: text that is no date is read as the epoch.
NewDateLenient(text) ==
  CASE text.kind = "date"    -> Num(text.v * DayLength)
    [] text.kind = "instant" -> Num(text.v)
    [] OTHER                 -> Num(0)

\* new Date(startDate).getTime(): a calendar date is its midnight, an instant
\* is itself, anything else is an Invalid Date.
NewDate(text) ==
  CASE text.kind = "date"    -> Num(text.v * DayLength)
    [] text.kind = "instant" -> Num(text.v)
    [] OTHER                 -> NaN

\* new Date(endDate + 'T23:59:59.999Z').getTime(): the last instant of a
\* calendar date; the suffix makes any other text an Invalid Date.
NewDateEndOfDay(text) ==
  IF text.kind = "date" THEN Num(text.v * DayLength + (DayLength - 1)) ELSE NaN

\* Where a stable sort puts o in a list sorted newest first: behind every
\* order that is not older.
RECURSIVE InsertNewestFirst(_, _)
InsertNewestFirst(sorted, o) ==
  IF sorted = <<>> THEN <<o>>
  ELSE IF Head(sorted).placementDate >= o.placementDate
    THEN <<Head(sorted)>> \o InsertNewestFirst(Tail(sorted), o)
  ELSE <<o>> \o sorted

\* Mutant: the sort is not stable, orders of one instant come out reversed.
RECURSIVE sortNewestFirstUnstable(_)
sortNewestFirstUnstable(arr) ==
  IF arr = <<>> THEN <<>>
  ELSE LET rest == sortNewestFirstUnstable(Tail(arr))
           older == SelectSeq(rest, LAMBDA o : o.placementDate < Head(arr).placementDate)
           others == SelectSeq(rest, LAMBDA o : o.placementDate >= Head(arr).placementDate)
       IN  others \o <<Head(arr)>> \o older

\* arr.sort((a, b) => new Date(b.placementDate) - new Date(a.placementDate))
\* of server.js:224; Array.prototype.sort is stable.
RECURSIVE sortNewestFirst(_)
sortNewestFirst(arr) ==
  IF arr = <<>> THEN <<>>
  ELSE InsertNewestFirst(sortNewestFirst(SubSeq(arr, 1, Len(arr) - 1)), arr[Len(arr)])

\* The response of the route callback of server.js:180-244; SelectSeq is
\* Array.prototype.filter.
searchOrders(ords, req) ==
  LET start == NewDate(req.startDate)
      end == NewDateEndOfDay(req.endDate)
      byCustomer == SelectSeq(ords, LAMBDA o : o.customerId = req.customerId)
      fromStart == IF req.startDate.kind # "absent"
                     THEN SelectSeq(byCustomer, LAMBDA o : o.placementDate >= start.n)
                     ELSE byCustomer
      toEnd == IF req.endDate.kind # "absent"
                 THEN SelectSeq(fromStart, LAMBDA o : o.placementDate <= end.n)
                 ELSE fromStart
      filteredOrders == sortNewestFirst(toEnd)
      totalCount == Len(filteredOrders)
      limitNum == MathMin(parseInt(req.limit, 20), 100)
      offsetNum == parseInt(req.offset, 0)
      paginatedOrders == slice(filteredOrders, offsetNum, Plus(offsetNum, limitNum))
  IN  IF req.customerId = ""
        THEN ErrorRes(400, "VALIDATION_ERROR", <<"Customer ID is required">>)
      ELSE IF req.startDate.kind # "absent" /\ start.nan
        THEN ErrorRes(400, "VALIDATION_ERROR", <<"Invalid start date format">>)
      ELSE IF req.endDate.kind # "absent" /\ end.nan
        THEN ErrorRes(400, "VALIDATION_ERROR", <<"Invalid end date format">>)
      ELSE [NoRes EXCEPT !.code = 200, !.body = paginatedOrders,
                         !.totalCount = totalCount, !.limit = limitNum,
                         !.offset = offsetNum]

\* GET /api/v1/orders, with its middleware.
SearchOrders(c) ==
  /\ InFlight(c, "search")
  /\ LET req == slots[c].req
         auth == authenticateToken(req)
     IN  IF auth # NoRes THEN Reply(c, auth) ELSE Reply(c, searchOrders(orders, req))
  /\ UNCHANGED <<orders, idempotencyKeys, uuidCount, now, listening, original>>

\* Mutant: the update also stamps the placement date.
ApplyStatusStampsPlacement(order, status, reason, t) ==
  [order EXCEPT !.status = status, !.lastUpdated = t, !.placementDate = t,
                !.statusReason = IF reason # "" THEN reason ELSE @]

\* Mutant: an update without a reason clears the stored reason.
ApplyStatusClearsReason(order, status, reason, t) ==
  [order EXCEPT !.status = status, !.lastUpdated = t, !.statusReason = reason]

\* Mutant: the update loses the line items.
ApplyStatusDropsItems(order, status, reason, t) ==
  [order EXCEPT !.status = status, !.lastUpdated = t, !.items = <<>>,
                !.statusReason = IF reason # "" THEN reason ELSE @]

\* The mutation of server.js:287-292.
ApplyStatus(order, status, reason, t) ==
  LET o1 == [order EXCEPT !.status = status, !.lastUpdated = t]
  IN  IF reason # "" THEN [o1 EXCEPT !.statusReason = reason] ELSE o1

\* Mutant: the body is validated before the order is looked up.
statusChecksBodyFirst(ords, req) ==
  IF req.status = ""
    THEN ErrorRes(400, "VALIDATION_ERROR", <<"Status is required">>)
  ELSE IF ~includes(validStatuses, req.status)
    THEN ErrorRes(400, "VALIDATION_ERROR",
                  <<"Invalid status. Must be one of:", validStatuses>>)
  ELSE IF ~OrdersHas(ords, req.orderId)
    THEN ErrorRes(404, "NOT_FOUND", <<"Order not found">>)
  ELSE IF ~canTransition(OrdersGet(ords, req.orderId).status, req.status)
    THEN ErrorRes(409, "INVALID_STATUS_TRANSITION",
                  <<"Cannot transition from", OrdersGet(ords, req.orderId).status,
                    "to", req.status>>)
  ELSE NoRes

\* The checks of server.js:252-284 in their order: the error response of the
\* first that fails, or NoRes when the update goes ahead.
statusChecks(ords, req) ==
  IF ~OrdersHas(ords, req.orderId)
    THEN ErrorRes(404, "NOT_FOUND", <<"Order not found">>)
  ELSE IF req.status = ""
    THEN ErrorRes(400, "VALIDATION_ERROR", <<"Status is required">>)
  ELSE IF ~includes(validStatuses, req.status)
    THEN ErrorRes(400, "VALIDATION_ERROR",
                  <<"Invalid status. Must be one of:", validStatuses>>)
  ELSE IF ~canTransition(OrdersGet(ords, req.orderId).status, req.status)
    THEN ErrorRes(409, "INVALID_STATUS_TRANSITION",
                  <<"Cannot transition from", OrdersGet(ords, req.orderId).status,
                    "to", req.status>>)
  ELSE NoRes

\* The route callback of server.js:248-302 as a function of the store, the
\* request and the clock: the store it leaves and its response.
patchStatus(ords, req, t) ==
  LET failed == statusChecks(ords, req)
      order == ApplyStatus(OrdersGet(ords, req.orderId), req.status, req.reason, t)
  IN  IF failed # NoRes
        THEN [orders |-> ords, res |-> failed]
        ELSE [orders |-> OrdersSet(ords, req.orderId, order),
              res |-> OrderRes(200, order)]

\* Mutant: the status is written before the transition guard is evaluated.
PatchStatusWritesFirst(c) ==
  /\ InFlight(c, "status")
  /\ LET req == slots[c].req
         auth == authenticateToken(req)
         failed == statusChecks(orders, req)
     IN  IF auth # NoRes THEN
           /\ Reply(c, auth)
           /\ UNCHANGED orders
         ELSE IF failed # NoRes /\ failed.code # 409 THEN
           /\ Reply(c, failed)
           /\ UNCHANGED orders
         ELSE
           LET order == ApplyStatus(OrdersGet(orders, req.orderId),
                                    req.status, req.reason, now)
           IN  /\ orders' = OrdersSet(orders, req.orderId, order)
               /\ Reply(c, IF failed # NoRes THEN failed ELSE OrderRes(200, order))
  /\ UNCHANGED <<idempotencyKeys, uuidCount, now, listening, original>>

\* PATCH /api/v1/orders/:orderId/status (server.js:248-302).
PatchStatus(c) ==
  /\ InFlight(c, "status")
  /\ LET req == slots[c].req
         auth == authenticateToken(req)
         failed == statusChecks(orders, req)
     IN  IF auth # NoRes THEN
           /\ Reply(c, auth)
           /\ UNCHANGED orders
         ELSE IF failed # NoRes THEN
           /\ Reply(c, failed)
           /\ UNCHANGED orders
         ELSE
           LET order == ApplyStatus(OrdersGet(orders, req.orderId),
                                    req.status, req.reason, now)
           IN  /\ orders' = OrdersSet(orders, req.orderId, order)
               /\ Reply(c, OrderRes(200, order))
  /\ UNCHANGED <<idempotencyKeys, uuidCount, now, listening, original>>

(* ------------------------------ the inputs ----------------------------- *)

GoodAuth == <<"Bearer", "mock-token-12345">>

CreateReq(a, k, cust, its) ==
  [NoReq EXCEPT !.op = "create", !.authorization = a, !.idempotencyKey = k,
                !.customerId = cust, !.items = its]
StatusReq(a, id, s, why) ==
  [NoReq EXCEPT !.op = "status", !.authorization = a, !.orderId = id,
                !.status = s, !.reason = why]
GetReq(a, id) == [NoReq EXCEPT !.op = "get", !.authorization = a, !.orderId = id]
HealthReq(a) == [NoReq EXCEPT !.op = "health", !.authorization = a]
SearchReq(a, cust, from, to, l, o) ==
  [NoReq EXCEPT !.op = "search", !.authorization = a, !.customerId = cust,
                !.startDate = from, !.endDate = to, !.limit = l, !.offset = o]

ItemsA == Items(<<Item("prod-001", 2, 29990), Item("prod-002", 1, 15500)>>)
ItemsB == Items(<<Item("prod-001", 1, 10000)>>)
ItemsZeroQty == Items(<<Item("prod-001", 0, 10000)>>)

\* Item lists that fail a check of validateCreateOrder, one way each.
ItemsEmpty == Items(<<>>)
ItemsZeroPrice == Items(<<Item("prod-001", 1, 0)>>)
ItemsNegQty == Items(<<Item("prod-001", -1, 10000)>>)
ItemsNegPrice == Items(<<Item("prod-001", 1, -10000)>>)
ItemsNoProduct ==
  Items(<<[Item("", 1, 10000) EXCEPT !.fields = {"quantity", "unitPrice"}]>>)
ItemsNoPrice ==
  Items(<<[Item("prod-001", 1, 0) EXCEPT !.fields = {"productId", "quantity"}]>>)
\* A valid item followed by one whose unit price is 0.
ItemsSecondZeroPrice ==
  Items(<<Item("prod-001", 1, 10000), Item("prod-002", 1, 0)>>)
\* One item at 1.005: the amount lies halfway between two cents.
ItemsTie == Items(<<Item("prod-003", 1, 1005)>>)

\* The order identifiers a client names: the first seeded order, the first
\* order created by a request, and one that is never issued.
FirstSeeded == 1
FirstCreated == 4
NeverIssued == 99

\* Requests of Spec, the status machine: every status value, with and
\* without a reason, on a seeded order, on a created order and on no order.
StatusRequests ==
  {StatusReq(GoodAuth, id, s, why) :
     id \in {FirstSeeded, FirstCreated, NeverIssued},
     s \in Range(validStatuses) \cup {"", "invalid-status"},
     why \in {"", "Payment processed"}}
  \cup {StatusReq(<<>>, FirstSeeded, "confirmed", ""),
        CreateReq(GoodAuth, "key-1", "cust-12345", ItemsB),
        GetReq(GoodAuth, FirstSeeded), HealthReq(<<>>)}

\* Requests of SpecCreate, idempotent creation: valid payloads that differ
\* in customer and items under two keys, each way a payload can be invalid,
\* and status updates that move or fail to move the first created order.
CreateRequests ==
  {CreateReq(GoodAuth, k, cust, its) :
     k \in {"key-1", "key-2"}, cust \in {"cust-12345", "cust-67890"},
     its \in {ItemsA, ItemsB}}
  \cup {CreateReq(GoodAuth, "", "cust-12345", ItemsA),
        CreateReq(GoodAuth, "key-1", "", ItemsA),
        CreateReq(GoodAuth, "key-1", "cust-12345", NoItems),
        CreateReq(GoodAuth, "key-2", "cust-12345", ItemsZeroQty),
        CreateReq(<<>>, "key-1", "cust-12345", ItemsA),
        CreateReq(<<"Bearer", "">>, "key-2", "", NoItems)}
  \cup {StatusReq(GoodAuth, FirstCreated, s, "") :
          s \in {"confirmed", "cancelled", "delivered", "", "invalid-status"}}
  \cup {StatusReq(GoodAuth, FirstCreated, "confirmed", "Payment processed"),
        StatusReq(GoodAuth, FirstCreated, "cancelled", "Out of stock"),
        StatusReq(GoodAuth, NeverIssued, "confirmed", ""),
        StatusReq(<<>>, FirstCreated, "confirmed", ""),
        GetReq(GoodAuth, FirstCreated), GetReq(GoodAuth, NeverIssued),
        GetReq(<<>>, FirstCreated), HealthReq(<<>>)}

\* Requests of SpecConc, requests in flight at once: creates under one key
\* with two payloads and under a second key, and status updates of the
\* first created order.
ConcRequests ==
  {CreateReq(GoodAuth, "key-1", "cust-12345", ItemsA),
   CreateReq(GoodAuth, "key-1", "cust-67890", ItemsB),
   CreateReq(GoodAuth, "key-2", "cust-12345", ItemsB),
   StatusReq(GoodAuth, FirstCreated, "confirmed", "Payment processed"),
   StatusReq(GoodAuth, FirstCreated, "cancelled", "")}

\* Requests of SpecValidate, the validation of a create: every combination
\* of a missing or present key, a missing or present customer and an item
\* list that is absent, empty, ill-formed in one way, or valid.
ValidateRequests ==
  {CreateReq(GoodAuth, k, cust, its) :
     k \in {"", "key-1", "key-2"}, cust \in {"", "cust-12345"},
     its \in {NoItems, ItemsEmpty, ItemsZeroQty, ItemsZeroPrice, ItemsNegQty,
              ItemsNegPrice, ItemsNoProduct, ItemsNoPrice, ItemsSecondZeroPrice,
              ItemsTie, ItemsA}}
  \cup {CreateReq(<<>>, "", "", NoItems),
        StatusReq(GoodAuth, FirstCreated, "confirmed", ""),
        StatusReq(GoodAuth, FirstCreated, "cancelled", "Out of stock")}

\* Authorization headers without a token: no header, the scheme alone, and
\* the scheme followed by a blank.
NoTokenHeaders == {<<>>, <<"Bearer">>, <<"Bearer", "">>}

\* Texts of limit and offset: absent, numerals, a limit above the cap,
\* negative numerals, text that is no numeral, and the empty text.
LimitParams ==
  {NoParam, Param(<<"0">>), Param(<<"1">>), Param(<<"2">>),
   Param(<<"1", "5", "0">>), Param(<<"-", "1">>), Param(<<"a", "b", "c">>),
   Param(<<>>)}
OffsetParams ==
  {NoParam, Param(<<"0">>), Param(<<"1">>), Param(<<"-", "1">>),
   Param(<<"a", "b", "c">>)}

\* Requests of SpecSearch, the search and every other route: pages of one
\* customer's orders, date ranges with and without a customer, other
\* customers, each route with and without a token.
SearchRequests ==
  {SearchReq(GoodAuth, "cust-12345", NoDate, NoDate, l, o) :
     l \in LimitParams, o \in OffsetParams}
  \cup {SearchReq(GoodAuth, cust, from, to, NoParam, NoParam) :
          cust \in {"cust-12345", ""},
          from \in {NoDate, DateText(0), DateText(1), InstantText(1), JunkText},
          to \in {NoDate, DateText(0), DateText(-1), JunkText}}
  \cup {SearchReq(GoodAuth, "cust-67890", NoDate, NoDate, NoParam, NoParam),
        SearchReq(GoodAuth, "test", NoDate, NoDate, NoParam, NoParam),
        SearchReq(GoodAuth, "cust-12345", InstantText(1), DateText(0),
                  Param(<<"1">>), Param(<<"1">>)),
        SearchReq(GoodAuth, "", NoDate, NoDate, Param(<<"5">>), Param(<<"0">>))}
  \cup {SearchReq(a, cust, NoDate, NoDate, NoParam, NoParam) :
          a \in NoTokenHeaders, cust \in {"test", ""}}
  \cup {CreateReq(GoodAuth, "key-1", "cust-12345", ItemsB),
        CreateReq(GoodAuth, "key-2", "cust-12345", ItemsA),
        CreateReq(<<>>, "key-1", "cust-12345", ItemsB),
        CreateReq(<<"Bearer", "">>, "", "", NoItems),
        StatusReq(GoodAuth, FirstCreated, "confirmed", ""),
        StatusReq(<<>>, FirstCreated, "confirmed", ""),
        StatusReq(<<"Bearer">>, NeverIssued, "", ""),
        GetReq(GoodAuth, FirstCreated),
        GetReq(<<>>, FirstCreated), GetReq(<<"Bearer", "">>, NeverIssued),
        HealthReq(<<>>), HealthReq(GoodAuth)}

Clients(n) == 1..n

InitN(n) ==
  /\ orders = <<>>
  /\ idempotencyKeys = <<>>
  /\ uuidCount = 0
  /\ now = 0
  /\ listening = FALSE
  /\ slots = [c \in Clients(n) |-> IdleSlot]
  /\ original = <<>>

\* The status machine, one client.
Init == InitN(1)

Next ==
  \/ seedData
  \/ Tick
  \/ \E c \in DOMAIN slots : \E r \in StatusRequests : Send(c, r)
  \/ \E c \in DOMAIN slots : Health(c)
  \/ \E c \in DOMAIN slots : PostOrders(c)
  \/ \E c \in DOMAIN slots : GetOrder(c)
  \/ \E c \in DOMAIN slots : PatchStatus(c)

Spec == Init /\ [][Next]_vars

\* Idempotent creation, one client.
NextCreate ==
  \/ seedData
  \/ Tick
  \/ \E c \in DOMAIN slots : \E r \in CreateRequests : Send(c, r)
  \/ \E c \in DOMAIN slots : Health(c)
  \/ \E c \in DOMAIN slots : PostOrders(c)
  \/ \E c \in DOMAIN slots : GetOrder(c)
  \/ \E c \in DOMAIN slots : PatchStatus(c)

SpecCreate == Init /\ [][NextCreate]_vars

\* Several clients with requests in flight at once.
InitConc == InitN(NConc)

\* The clock stands still in this specification.
NextConc ==
  \/ seedDataBy(now)
  \/ \E c \in DOMAIN slots : \E r \in ConcRequests : Send(c, r)
  \/ \E c \in DOMAIN slots : PostOrders(c)
  \/ \E c \in DOMAIN slots : PatchStatus(c)

SpecConc == InitConc /\ [][NextConc]_vars

\* Validation of a create, one client.
NextValidate ==
  \/ seedData
  \/ Tick
  \/ \E c \in DOMAIN slots : \E r \in ValidateRequests : Send(c, r)
  \/ \E c \in DOMAIN slots : PostOrders(c)
  \/ \E c \in DOMAIN slots : PatchStatus(c)

SpecValidate == Init /\ [][NextValidate]_vars

\* The search and every other route, one client.
NextSearch ==
  \/ seedData
  \/ Tick
  \/ \E c \in DOMAIN slots : \E r \in SearchRequests : Send(c, r)
  \/ \E c \in DOMAIN slots : Health(c)
  \/ \E c \in DOMAIN slots : PostOrders(c)
  \/ \E c \in DOMAIN slots : GetOrder(c)
  \/ \E c \in DOMAIN slots : SearchOrders(c)
  \/ \E c \in DOMAIN slots : PatchStatus(c)

SpecSearch == Init /\ [][NextSearch]_vars


(* ----------------------- vocabulary of the properties ------------------ *)

\* This step runs the handler of client c's request of kind op.
Handles(c, op) ==
  /\ slots[c].req.op = op
  /\ slots[c].res = NoRes
  /\ slots'[c].res # NoRes

\* Client c holds the response to a request of kind op.
Answered(c, op) == slots[c].req.op = op /\ slots[c].res # NoRes

\* The request carries a non-empty bearer token.
HasToken(req) == Len(req.authorization) >= 2 /\ req.authorization[2] # ""

\* A create payload with a key, a customer and at least one item, every item
\* with a product, a positive quantity and a positive unit price.
WellFormed(req) ==
  /\ req.idempotencyKey # ""
  /\ req.customerId # ""
  /\ req.items.isArray
  /\ Len(req.items.elems) > 0
  /\ \A i \in 1..Len(req.items.elems) :
       LET item == req.items.elems[i]
       IN  /\ item.fields = {"productId", "quantity", "unitPrice"}
           /\ item.productId # ""
           /\ item.quantity > 0
           /\ item.unitPrice > 0

\* The fields of an order that no status update writes.
Immutable(o) ==
  <<o.orderId, o.customerId, o.placementDate, o.items, o.totalAmount>>

NumSeeded == Len(sampleOrders)

(* --------------------------------- C1 ---------------------------------- *)

\* C1: however create requests with the same idempotency key and valid
\* payloads are interleaved, one order is stored for the key (the store holds
\* the seeded orders and one order per recorded key, each key's order exists
\* once and belongs to no other key) and every such request that was
\* answered with an order was answered with that order.
C1_OneOrderPerKey ==
  /\ listening => Len(orders) = NumSeeded + Cardinality(DOMAIN idempotencyKeys)
  /\ \A k \in DOMAIN idempotencyKeys :
       /\ Cardinality({i \in 1..Len(orders) :
                         orders[i].orderId = idempotencyKeys[k]}) = 1
       /\ \A k2 \in DOMAIN idempotencyKeys :
            k2 # k => idempotencyKeys[k2] # idempotencyKeys[k]
  /\ \A c \in DOMAIN slots :
       (Answered(c, "create") /\ WellFormed(slots[c].req) /\ HasToken(slots[c].req)) =>
         /\ slots[c].res.code \in {200, 201}
         /\ slots[c].req.idempotencyKey \in DOMAIN idempotencyKeys
         /\ slots[c].res.body[1].orderId = idempotencyKeys[slots[c].req.idempotencyKey]
  /\ \A c, d \in DOMAIN slots :
       (/\ c # d
        /\ Answered(c, "create") /\ Answered(d, "create")
        /\ slots[c].req.idempotencyKey = slots[d].req.idempotencyKey) =>
         ~(slots[c].res.code = 201 /\ slots[d].res.code = 201)

\* Two creates with one key were in flight together; one was answered 201
\* and the other 200.
C1_Witness ==
  \E c, d \in DOMAIN slots :
    /\ c # d
    /\ Answered(c, "create") /\ Answered(d, "create")
    /\ slots[c].req.idempotencyKey = slots[d].req.idempotencyKey
    /\ slots[c].raced
    /\ slots[c].res.code = 201
    /\ slots[d].res.code = 200
    /\ slots[d].res.body[1].orderId = slots[c].res.body[1].orderId

(* --------------------------------- C2 ---------------------------------- *)

\* C2: a valid create whose key has not been answered 201 before is answered
\* 201 and adds exactly one order; a valid create whose key has been answered
\* 201 is answered 200 with the orderId of that first answer and adds no
\* order; so the store always holds, beside the seeded orders, as many orders
\* as there are keys with a successful create.
C2_FirstCreatesLaterReplays ==
  [][ /\ \A c \in DOMAIN slots :
           (Handles(c, "create") /\ HasToken(slots[c].req) /\ WellFormed(slots[c].req)) =>
             LET k == slots[c].req.idempotencyKey
                 res == slots'[c].res
             IN  IF k \notin DOMAIN original
                   THEN /\ res.code = 201
                        /\ Len(orders') = Len(orders) + 1
                        /\ k \in DOMAIN original'
                        /\ res.body = <<original'[k]>>
                   ELSE /\ res.code = 200
                        /\ Len(res.body) = 1
                        /\ res.body[1].orderId = original[k].orderId
                        /\ orders' = orders
                        /\ original' = original
      /\ listening' =>
           Len(orders') = NumSeeded + Cardinality(DOMAIN original')
    ]_vars

\* A create was answered 200 while two keys have had a successful create.
C2_Witness ==
  \E c \in DOMAIN slots :
    /\ Answered(c, "create")
    /\ slots[c].res.code = 200
    /\ Cardinality(DOMAIN original) = 2
    /\ Len(orders) = NumSeeded + 2

(* --------------------------------- C3 ---------------------------------- *)

\* C3 as stated: the body of a replayed create (200) is identical to the body
\* of the original create (201), whatever was executed in between.
C3_ReplayBodyIdentical ==
  \A c \in DOMAIN slots :
    (Answered(c, "create") /\ slots[c].res.code = 200) =>
      slots[c].res.body = <<original[slots[c].req.idempotencyKey]>>

\* C3 amended: a replayed create (200) returns the stored order in its
\* current state.  Its orderId, customerId, placementDate, items and
\* totalAmount are those of the original 201 body; its status, lastUpdated
\* and statusReason are the stored ones, and the whole body is identical to
\* the original as long as no status update has moved the order off pending.
C3_ReplayReturnsCurrentOrder ==
  [][ \A c \in DOMAIN slots :
        (Handles(c, "create") /\ slots'[c].res.code = 200) =>
          LET first == original[slots[c].req.idempotencyKey]
              body == slots'[c].res.body
          IN  /\ Len(body) = 1
              /\ OrdersHas(orders, first.orderId)
              /\ body[1] = OrdersGet(orders, first.orderId)
              /\ Immutable(body[1]) = Immutable(first)
              /\ body[1].lastUpdated >= first.lastUpdated
              /\ body[1].status = "pending" => body[1] = first
    ]_vars

\* A replay answered after a status update with a reason: the body differs
\* from the original in status and statusReason.
C3_Witness ==
  \E c \in DOMAIN slots :
    /\ Answered(c, "create")
    /\ slots[c].res.code = 200
    /\ slots[c].res.body[1].status = "confirmed"
    /\ slots[c].res.body[1].statusReason = "Payment processed"
    /\ original[slots[c].req.idempotencyKey].status = "pending"

(* --------------------------------- C4 ---------------------------------- *)

\* C4 as stated: a create whose key is in the ledger is answered 200 with the
\* stored order whatever its customerId and items are.
C4_ReplaySkipsValidation ==
  [][ \A c \in DOMAIN slots :
        (/\ Handles(c, "create")
         /\ HasToken(slots[c].req)
         /\ slots[c].req.idempotencyKey \in DOMAIN idempotencyKeys) =>
          /\ slots'[c].res.code = 200
          /\ slots'[c].res.body =
               <<OrdersGet(orders, idempotencyKeys[slots[c].req.idempotencyKey])>>
    ]_vars

\* C4 amended: a create whose key is in the ledger is validated like any
\* create.  With a well-formed payload it is answered 200 with the stored
\* order, whatever customerId and items it carries (they are not compared
\* with the original and not used); with a payload that fails validation it
\* is answered 400 VALIDATION_ERROR.  Neither changes the store or the ledger.
C4_ReplayValidatedThenStored ==
  [][ \A c \in DOMAIN slots :
        (/\ Handles(c, "create")
         /\ HasToken(slots[c].req)
         /\ slots[c].req.idempotencyKey \in DOMAIN idempotencyKeys) =>
          /\ IF WellFormed(slots[c].req)
               THEN /\ slots'[c].res.code = 200
                    /\ slots'[c].res.body =
                         <<OrdersGet(orders,
                                     idempotencyKeys[slots[c].req.idempotencyKey])>>
               ELSE /\ slots'[c].res.code = 400
                    /\ slots'[c].res.error = "VALIDATION_ERROR"
                    /\ slots'[c].res.body = <<>>
          /\ orders' = orders
          /\ idempotencyKeys' = idempotencyKeys
    ]_vars

\* A replay whose customerId and items differ from the stored order's was
\* answered 200 with the stored order.
C4_Witness ==
  \E c \in DOMAIN slots :
    /\ Answered(c, "create")
    /\ slots[c].res.code = 200
    /\ slots[c].res.body[1].customerId # slots[c].req.customerId
    /\ slots[c].res.body[1].items # CopyItems(slots[c].req.items.elems)

(* --------------------------------- C5 ---------------------------------- *)

\* The statuses and the transition table as the specification lists them.
Enumeration ==
  {"pending", "confirmed", "processing", "shipped", "delivered", "cancelled"}

ListedTargets(s) ==
  CASE s = "pending"    -> {"confirmed", "cancelled"}
    [] s = "confirmed"  -> {"processing", "cancelled"}
    [] s = "processing" -> {"shipped", "cancelled"}
    [] s = "shipped"    -> {"delivered"}
    [] s = "delivered"  -> {}
    [] s = "cancelled"  -> {}

\* C5: a status update on an existing order with current status s and a
\* target t of the enumeration is answered 200 and sets the status to t
\* exactly when t is listed for s; otherwise it is answered 409
\* INVALID_STATUS_TRANSITION and the status stays s.
C5_TransitionTable ==
  [][ \A c \in DOMAIN slots :
        (/\ Handles(c, "status")
         /\ HasToken(slots[c].req)
         /\ OrdersHas(orders, slots[c].req.orderId)
         /\ slots[c].req.status \in Enumeration) =>
          LET id == slots[c].req.orderId
              s == OrdersGet(orders, id).status
              t == slots[c].req.status
              res == slots'[c].res
          IN  IF t \in ListedTargets(s)
                THEN /\ res.code = 200
                     /\ res.body = <<OrdersGet(orders', id)>>
                     /\ OrdersGet(orders', id).status = t
                ELSE /\ res.code = 409
                     /\ res.error = "INVALID_STATUS_TRANSITION"
                     /\ OrdersGet(orders', id).status = s
    ]_vars

\* The order created by a request (pending at first) was answered 200 on its
\* update to delivered: the whole chain has been walked.
C5_Witness ==
  \E c \in DOMAIN slots :
    /\ Answered(c, "status")
    /\ slots[c].req.orderId = FirstCreated
    /\ slots[c].res.code = 200
    /\ slots[c].res.body[1].status = "delivered"

(* --------------------------------- C6 ---------------------------------- *)

\* C6: once an order is delivered or cancelled, no step changes its status
\* and every status update on it is rejected (409 when the request is
\* authenticated and names a status of the enumeration).
C6_TerminalPermanent ==
  [][ \A i \in 1..Len(orders) :
        orders[i].status \in {"delivered", "cancelled"} =>
          /\ i <= Len(orders')
          /\ orders'[i].orderId = orders[i].orderId
          /\ orders'[i].status = orders[i].status
          /\ \A c \in DOMAIN slots :
               (Handles(c, "status") /\ slots[c].req.orderId = orders[i].orderId) =>
                 /\ slots'[c].res.code \in {400, 401, 409}
                 /\ (HasToken(slots[c].req) /\ slots[c].req.status \in Enumeration) =>
                      slots'[c].res.code = 409
    ]_vars

\* An update of a delivered order to cancelled was answered 409.
C6_Witness ==
  \E c \in DOMAIN slots :
    /\ Answered(c, "status")
    /\ slots[c].req.status = "cancelled"
    /\ slots[c].res.code = 409
    /\ OrdersHas(orders, slots[c].req.orderId)
    /\ OrdersGet(orders, slots[c].req.orderId).status = "delivered"

(* --------------------------------- C7 ---------------------------------- *)

\* C7: an update to cancelled of an order that is pending, confirmed or
\* processing succeeds, and an order that is shipped or delivered stays
\* shipped or delivered, so it is never cancelled later.
C7_CancelBeforeShipping ==
  [][ /\ \A c \in DOMAIN slots :
           (/\ Handles(c, "status")
            /\ HasToken(slots[c].req)
            /\ slots[c].req.status = "cancelled"
            /\ OrdersHas(orders, slots[c].req.orderId)
            /\ OrdersGet(orders, slots[c].req.orderId).status
                 \in {"pending", "confirmed", "processing"}) =>
             /\ slots'[c].res.code = 200
             /\ OrdersGet(orders', slots[c].req.orderId).status = "cancelled"
      /\ \A i \in 1..Len(orders) :
           orders[i].status \in {"shipped", "delivered"} =>
             /\ i <= Len(orders')
             /\ orders'[i].orderId = orders[i].orderId
             /\ orders'[i].status \in {"shipped", "delivered"}
    ]_vars

\* One order has been cancelled, and the update to cancelled of another
\* order, which is shipped, was answered 409.
C7_Witness ==
  \E c \in DOMAIN slots :
    /\ Answered(c, "status")
    /\ slots[c].req.status = "cancelled"
    /\ slots[c].res.code = 409
    /\ OrdersHas(orders, slots[c].req.orderId)
    /\ OrdersGet(orders, slots[c].req.orderId).status = "shipped"
    /\ \E i \in 1..Len(orders) :
         orders[i].orderId # slots[c].req.orderId /\ orders[i].status = "cancelled"

(* --------------------------------- C8 ---------------------------------- *)

\* C8: a request answered with an error (a status code of 400 or more)
\* leaves the order store and the idempotency ledger as they were.
C8_ErrorsChangeNothing ==
  [][ \A c \in DOMAIN slots :
        (/\ slots[c].res = NoRes
         /\ slots'[c].res # NoRes
         /\ slots'[c].res.code >= 400) =>
          /\ orders' = orders
          /\ idempotencyKeys' = idempotencyKeys
    ]_vars

\* A create with a key was rejected and the key is still free, while another
\* key's order has been stored and moved to confirmed.
C8_Witness ==
  \E c \in DOMAIN slots :
    /\ Answered(c, "create")
    /\ slots[c].res.code = 400
    /\ slots[c].req.idempotencyKey # ""
    /\ slots[c].req.idempotencyKey \notin DOMAIN idempotencyKeys
    /\ DOMAIN idempotencyKeys # {}
    /\ \E i \in 1..Len(orders) : i > NumSeeded /\ orders[i].status = "confirmed"

(* --------------------------------- C9 ---------------------------------- *)

\* C9: an authenticated status update is answered by the first failing check
\* of: unknown orderId (404 NOT_FOUND), missing status (400
\* VALIDATION_ERROR), status outside the enumeration (400 VALIDATION_ERROR),
\* transition not listed (409 INVALID_STATUS_TRANSITION); 200 if none fails.
C9_StatusCheckOrder ==
  [][ \A c \in DOMAIN slots :
        (Handles(c, "status") /\ HasToken(slots[c].req)) =>
          LET req == slots[c].req
              res == slots'[c].res
          IN  IF ~OrdersHas(orders, req.orderId)
                THEN res.code = 404 /\ res.error = "NOT_FOUND"
              ELSE IF req.status = ""
                THEN /\ res.code = 400 /\ res.error = "VALIDATION_ERROR"
                     /\ res.message = <<"Status is required">>
              ELSE IF req.status \notin Enumeration
                THEN /\ res.code = 400 /\ res.error = "VALIDATION_ERROR"
                     /\ res.message[1] = "Invalid status. Must be one of:"
              ELSE IF req.status \notin ListedTargets(OrdersGet(orders, req.orderId).status)
                THEN res.code = 409 /\ res.error = "INVALID_STATUS_TRANSITION"
              ELSE res.code = 200
    ]_vars

\* An update without a status on an unknown order was answered 404.
C9_Witness ==
  \E c \in DOMAIN slots :
    /\ Answered(c, "status")
    /\ slots[c].req.status = ""
    /\ ~OrdersHas(orders, slots[c].req.orderId)
    /\ slots[c].res.code = 404
    /\ slots[c].res.error = "NOT_FOUND"

(* --------------------------------- C10 --------------------------------- *)

\* C10: a create answered 201 appends one order to the store, leaving the
\* others as they were: its status is pending, placementDate and lastUpdated
\* are the same instant, its orderId is the identifier of no order stored
\* before, its customerId and items are the request's; the ledger gains the
\* mapping of the request's key to that orderId, and the body is that order.
C10_NewOrder ==
  [][ \A c \in DOMAIN slots :
        (Handles(c, "create") /\ slots'[c].res.code = 201) =>
          LET req == slots[c].req
              o == orders'[Len(orders')]
          IN  /\ Len(orders') = Len(orders) + 1
              /\ SubSeq(orders', 1, Len(orders)) = orders
              /\ slots'[c].res.body = <<o>>
              /\ o.status = "pending"
              /\ o.placementDate = o.lastUpdated
              /\ o.placementDate = now
              /\ ~OrdersHas(orders, o.orderId)
              /\ o.customerId = req.customerId
              /\ Len(o.items) = Len(req.items.elems)
              /\ \A i \in 1..Len(o.items) :
                   /\ o.items[i].productId = req.items.elems[i].productId
                   /\ o.items[i].quantity = req.items.elems[i].quantity
                   /\ o.items[i].unitPrice = req.items.elems[i].unitPrice
              /\ req.idempotencyKey \notin DOMAIN idempotencyKeys
              /\ DOMAIN idempotencyKeys' = DOMAIN idempotencyKeys \cup {req.idempotencyKey}
              /\ idempotencyKeys'[req.idempotencyKey] = o.orderId
              /\ \A k \in DOMAIN idempotencyKeys : idempotencyKeys'[k] = idempotencyKeys[k]
    ]_vars

\* A second order was created by a request and answered 201.
C10_Witness ==
  \E c \in DOMAIN slots :
    /\ Answered(c, "create")
    /\ slots[c].res.code = 201
    /\ Len(orders) = NumSeeded + 2
    /\ slots[c].res.body[1] = orders[Len(orders)]
    /\ slots[c].res.body[1].customerId = "cust-67890"

(* --------------------------------- C11 --------------------------------- *)

\* The sum over the line items of quantity x unitPrice, in mills, and its
\* rounding half-up to cents.
LineSum(items) ==
  SumSeq([i \in 1..Len(items) |-> items[i].quantity * items[i].unitPrice])

RoundHalfUp(mills) == (mills + 5) \div 10

\* C11: in every reachable state every stored order's totalAmount is the sum
\* over its line items of quantity x unitPrice rounded half-up to two
\* decimal places, and no step changes the totalAmount of a stored order.
C11_TotalRoundedHalfUp ==
  [][ /\ \A i \in 1..Len(orders') :
           orders'[i].totalAmount = RoundHalfUp(LineSum(orders'[i].items))
      /\ \A i \in 1..Len(orders) :
           /\ i <= Len(orders')
           /\ orders'[i].totalAmount = orders[i].totalAmount
    ]_vars

(* --------------------------------- C12 --------------------------------- *)

\* An item with a product, a positive quantity and a positive unit price.
ItemOk(item) ==
  /\ item.fields = {"productId", "quantity", "unitPrice"}
  /\ item.productId # ""
  /\ item.quantity > 0
  /\ item.unitPrice > 0

\* C12: an authenticated create is answered by the first failing check of:
\* (1) idempotency key present and non-empty, (2) customerId present and
\* non-empty, (3) items present and non-empty, (4) every item well-formed;
\* each failure is a 400 VALIDATION_ERROR with the message of that check, and
\* a request that passes all four is answered with an order.
C12_ValidationOrder ==
  [][ \A c \in DOMAIN slots :
        (Handles(c, "create") /\ HasToken(slots[c].req)) =>
          LET req == slots[c].req
              res == slots'[c].res
              Rejected(m) == /\ res.code = 400
                             /\ res.error = "VALIDATION_ERROR"
                             /\ res.message = <<m>>
          IN  IF req.idempotencyKey = ""
                THEN Rejected("Idempotency-Key header is required")
              ELSE IF req.customerId = ""
                THEN Rejected("Customer ID is required")
              ELSE IF ~req.items.isArray \/ req.items.elems = <<>>
                THEN Rejected("At least one item is required")
              ELSE IF \E i \in 1..Len(req.items.elems) : ~ItemOk(req.items.elems[i])
                THEN \/ Rejected("Each item must have productId, quantity, and unitPrice")
                     \/ Rejected("Quantity must be positive and unitPrice must be non-negative")
              ELSE res.code \in {200, 201}
    ]_vars

\* A create that fails checks (1), (2) and (3) at once was answered with the
\* message of check (1).
C12_Witness ==
  \E c \in DOMAIN slots :
    /\ Answered(c, "create")
    /\ HasToken(slots[c].req)
    /\ slots[c].req.idempotencyKey = ""
    /\ slots[c].req.customerId = ""
    /\ ~slots[c].req.items.isArray
    /\ slots[c].res.code = 400
    /\ slots[c].res.message = <<"Idempotency-Key header is required">>

(* --------------------------------- C13 --------------------------------- *)

\* C13: an authenticated create with a key, a customer and a list of items
\* of which one has quantity 0 or unitPrice 0 is answered 400
\* VALIDATION_ERROR and stores nothing, so every line item of every order
\* created by a request has quantity > 0 and unitPrice > 0.
C13_ZeroRejected ==
  [][ /\ \A c \in DOMAIN slots :
           (/\ Handles(c, "create")
            /\ HasToken(slots[c].req)
            /\ slots[c].req.idempotencyKey # ""
            /\ slots[c].req.customerId # ""
            /\ slots[c].req.items.isArray
            /\ \E i \in 1..Len(slots[c].req.items.elems) :
                 LET item == slots[c].req.items.elems[i]
                 IN  \/ "quantity" \in item.fields /\ item.quantity = 0
                     \/ "unitPrice" \in item.fields /\ item.unitPrice = 0) =>
             /\ slots'[c].res.code = 400
             /\ slots'[c].res.error = "VALIDATION_ERROR"
             /\ orders' = orders
             /\ idempotencyKeys' = idempotencyKeys
      /\ \A i \in 1..Len(orders') :
           i > NumSeeded =>
             \A j \in 1..Len(orders'[i].items) :
               orders'[i].items[j].quantity > 0 /\ orders'[i].items[j].unitPrice > 0
    ]_vars

\* A create whose second item has unit price 0 was answered 400 under a key
\* that is still free, after another key's order had been created.
C13_Witness ==
  \E c \in DOMAIN slots :
    /\ Answered(c, "create")
    /\ slots[c].req.items = ItemsSecondZeroPrice
    /\ slots[c].res.code = 400
    /\ slots[c].res.message =
         <<"Each item must have productId, quantity, and unitPrice">>
    /\ slots[c].req.idempotencyKey \notin DOMAIN idempotencyKeys
    /\ Len(orders) > NumSeeded

(* --------------------------------- C14 --------------------------------- *)

\* C14: a create, get, search or status update whose Authorization header
\* carries no non-empty token is answered 401 UNAUTHORIZED whatever else it
\* carries, and changes neither the store nor the ledger; the health check
\* is answered 200 with or without the header.
C14_TokenRequired ==
  [][ \A c \in DOMAIN slots :
        /\ (/\ \E op \in {"create", "get", "search", "status"} : Handles(c, op)
            /\ ~HasToken(slots[c].req)) =>
             /\ slots'[c].res.code = 401
             /\ slots'[c].res.error = "UNAUTHORIZED"
             /\ slots'[c].res.body = <<>>
             /\ orders' = orders
             /\ idempotencyKeys' = idempotencyKeys
        /\ (/\ \E op \in {"create", "get", "search", "status"} : Handles(c, op)
            /\ HasToken(slots[c].req)) =>
             slots'[c].res.code # 401
        /\ Handles(c, "health") =>
             slots'[c].res.code = 200 /\ slots'[c].res.health = "healthy"
    ]_vars

\* A status update without a status on an unknown order, sent with the
\* scheme but no token, was answered 401 and not 404, after an order had
\* been created by a request.
C14_Witness ==
  \E c \in DOMAIN slots :
    /\ Answered(c, "status")
    /\ slots[c].req.authorization = <<"Bearer">>
    /\ ~OrdersHas(orders, slots[c].req.orderId)
    /\ slots[c].req.status = ""
    /\ slots[c].res.code = 401
    /\ slots[c].res.error = "UNAUTHORIZED"
    /\ Len(orders) > NumSeeded

(* --------------------------------- C15 --------------------------------- *)

\* The order lies within the customer and date bounds of a search.
Matches(o, req) ==
  /\ o.customerId = req.customerId
  /\ req.startDate.kind # "absent" => o.placementDate >= NewDate(req.startDate).n
  /\ req.endDate.kind # "absent" => o.placementDate <= NewDateEndOfDay(req.endDate).n

\* The elements of list at the positions p (counted from 0) with
\* from <= p < to, in their order.
Positions(list, from, to) ==
  LET ps == {p \in 0..(Len(list) - 1) : from <= p /\ p < to}
  IN  [k \in 1..Cardinality(ps) |->
         list[(CHOOSE p \in ps : \A q \in ps : p <= q) + k]]

\* C15: a search with a customerId that is answered 200 reports as
\* totalCount the number of stored orders of exactly that customer whose
\* placement timestamp lies within the start (inclusive) and end-of-day
\* (inclusive) bounds, whatever limit and offset are, returns exactly the
\* elements at positions [offset, offset+limit) of the filtered list sorted
\* newest first, and returns no order of another customer.
C15_SearchPage ==
  [][ \A c \in DOMAIN slots :
        (Handles(c, "search") /\ slots'[c].res.code = 200) =>
          LET req == slots[c].req
              res == slots'[c].res
              list == sortNewestFirst(SelectSeq(orders, LAMBDA o : Matches(o, req)))
          IN  /\ req.customerId # ""
              /\ res.totalCount =
                   Cardinality({i \in 1..Len(orders) : Matches(orders[i], req)})
              /\ \A i \in 1..Len(res.body) : res.body[i].customerId = req.customerId
              /\ (~res.limit.nan /\ ~res.offset.nan) =>
                   res.body = Positions(list, res.offset.n, res.offset.n + res.limit.n)
    ]_vars

(* --------------------------------- C16 --------------------------------- *)

\* The text is a decimal numeral, with or without a minus sign.
IsNumeral(text) ==
  LET digits == IF text # <<>> /\ Head(text) = "-" THEN Tail(text) ELSE text
  IN  digits # <<>> /\ \A i \in 1..Len(digits) : IsDigit(digits[i])

\* The limit a search asks for: 20 when it names none.
Requested(param) == IF param.given THEN parseIntText(param.text).n ELSE 20

\* C16: a search is not rejected for its limit; the echoed limit is a number
\* that is at most 100 and not below 0, it is 100 when the requested limit
\* is above 100, and for every requested limit it is the smaller of the
\* requested limit and 100.
C16_LimitClamped ==
  [][ \A c \in DOMAIN slots :
        (/\ Handles(c, "search")
         /\ HasToken(slots[c].req)
         /\ slots[c].req.customerId # ""
         /\ slots[c].req.startDate = NoDate
         /\ slots[c].req.endDate = NoDate) =>
          LET limit == slots[c].req.limit
              res == slots'[c].res
          IN  /\ res.code = 200
              /\ ~res.limit.nan
              /\ res.limit.n <= 100
              /\ res.limit.n >= 0
              /\ (~limit.given \/ IsNumeral(limit.text)) =>
                   res.limit.n = IF Requested(limit) > 100 THEN 100 ELSE Requested(limit)
    ]_vars

(* --------------------------------- C17 --------------------------------- *)

\* C17: an authenticated search without customerId is answered 400
\* VALIDATION_ERROR "Customer ID is required" whatever its dates, limit and
\* offset are; one with a customerId and a startDate or endDate that is no
\* date is answered 400 VALIDATION_ERROR; no search changes the store or the
\* ledger.
C17_SearchRejects ==
  [][ \A c \in DOMAIN slots :
        (Handles(c, "search") /\ HasToken(slots[c].req)) =>
          LET req == slots[c].req
              res == slots'[c].res
          IN  /\ req.customerId = "" =>
                   /\ res.code = 400
                   /\ res.error = "VALIDATION_ERROR"
                   /\ res.message = <<"Customer ID is required">>
              /\ (/\ req.customerId # ""
                  /\ req.startDate = JunkText \/ req.endDate = JunkText) =>
                   /\ res.code = 400
                   /\ res.error = "VALIDATION_ERROR"
                   /\ res.message = IF req.startDate = JunkText
                                      THEN <<"Invalid start date format">>
                                      ELSE <<"Invalid end date format">>
              /\ res.code = 400 => res.body = <<>>
              /\ orders' = orders
              /\ idempotencyKeys' = idempotencyKeys
              /\ uuidCount' = uuidCount
    ]_vars

\* A search without customerId whose startDate and endDate are no dates was
\* answered with the missing customer, while the store holds an order
\* created by a request.
C17_Witness ==
  \E c \in DOMAIN slots :
    /\ Answered(c, "search")
    /\ slots[c].req.customerId = ""
    /\ slots[c].req.startDate = JunkText
    /\ slots[c].req.endDate = JunkText
    /\ slots[c].res.code = 400
    /\ slots[c].res.message = <<"Customer ID is required">>
    /\ Len(orders) > NumSeeded

(* --------------------------------- C18 --------------------------------- *)

\* C18: the orders of a search result are in descending order of placement
\* timestamp, and two of the same timestamp are in the order of their
\* insertion into the store.  The two conditions fix the order of any two
\* returned orders, so one store state and query give one result order.
C18_NewestFirstStable ==
  [][ \A c \in DOMAIN slots :
        (Handles(c, "search") /\ slots'[c].res.code = 200) =>
          LET body == slots'[c].res.body
          IN  \A i, j \in 1..Len(body) :
                i < j =>
                  /\ body[i].placementDate >= body[j].placementDate
                  /\ OrdersHas(orders, body[i].orderId)
                  /\ OrdersHas(orders, body[j].orderId)
                  /\ body[i].placementDate = body[j].placementDate =>
                       OrdersIndex(orders, body[i].orderId)
                         < OrdersIndex(orders, body[j].orderId)
    ]_vars

\* A search returned an order created by a request ahead of the two seeded
\* orders of the customer, which bear one timestamp and follow in the order
\* of their insertion.
C18_Witness ==
  \E c \in DOMAIN slots :
    /\ Answered(c, "search")
    /\ slots[c].res.code = 200
    /\ Len(slots[c].res.body) = 3
    /\ slots[c].res.body[1].orderId = FirstCreated
    /\ slots[c].res.body[1].placementDate > slots[c].res.body[2].placementDate
    /\ slots[c].res.body[2].placementDate = slots[c].res.body[3].placementDate
    /\ slots[c].res.body[2] = orders[1]
    /\ slots[c].res.body[3] = orders[2]

(* --------------------------------- C19 --------------------------------- *)

\* C19: with status updates of one order in flight together, each is
\* validated against the status the store holds when its handler runs, the
\* status left by whichever was handled before it, and writes in the same
\* step: it is answered 200 and sets the status exactly when the transition
\* from that status is listed, else 409 and the order stays as it is.  So
\* concurrent 'confirmed' and 'cancelled' on an order that exists leave it
\* cancelled, with both accepted or with one of them rejected 409, and a
\* cancellation once accepted is never overwritten.
C19_UpdatesSerialised ==
  [][ /\ \A c \in DOMAIN slots :
           (/\ Handles(c, "status")
            /\ OrdersHas(orders, slots[c].req.orderId)
            /\ slots[c].req.status \in Enumeration) =>
             LET id == slots[c].req.orderId
                 s == OrdersGet(orders, id).status
                 t == slots[c].req.status
                 res == slots'[c].res
             IN  IF t \in ListedTargets(s)
                   THEN /\ res.code = 200
                        /\ OrdersGet(orders', id).status = t
                        /\ res.body = <<OrdersGet(orders', id)>>
                   ELSE /\ res.code = 409
                        /\ orders' = orders
      /\ \A c, d \in DOMAIN slots :
           (/\ c # d
            /\ slots'[c].req.op = "status" /\ slots'[c].res # NoRes
            /\ slots'[d].req.op = "status" /\ slots'[d].res # NoRes
            /\ slots'[c].req.orderId = slots'[d].req.orderId
            /\ slots'[c].req.status = "confirmed"
            /\ slots'[d].req.status = "cancelled"
            /\ slots'[c].raced \/ slots'[d].raced
            /\ slots'[c].res.code # 404
            /\ slots'[d].res.code # 404) =>
             /\ slots'[c].res.code \in {200, 409}
             /\ slots'[d].res.code \in {200, 409}
             /\ OrdersGet(orders', slots'[c].req.orderId).status = "cancelled"
    ]_vars

\* 'confirmed' and 'cancelled' on the order created by a request were in
\* flight together and both were accepted: the order was confirmed, then
\* cancelled.
C19_Witness ==
  \E c, d \in DOMAIN slots :
    /\ c # d
    /\ Answered(c, "status") /\ Answered(d, "status")
    /\ slots[c].req.orderId = FirstCreated
    /\ slots[d].req.orderId = FirstCreated
    /\ slots[d].raced
    /\ slots[c].req.status = "confirmed"
    /\ slots[c].res.code = 200
    /\ slots[c].res.body[1].status = "confirmed"
    /\ slots[d].req.status = "cancelled"
    /\ slots[d].res.code = 200
    /\ OrdersGet(orders, FirstCreated).status = "cancelled"

(* --------------------------------- C20 --------------------------------- *)

\* Every order that this step adds to the store is pending, and every order
\* whose status this step changes moves along a listed transition.
StepGuarded ==
  /\ Len(orders') >= Len(orders)
  /\ \A i \in 1..Len(orders') :
       IF i > Len(orders)
         THEN orders'[i].status = "pending"
         ELSE /\ orders'[i].orderId = orders[i].orderId
              /\ orders'[i].status # orders[i].status =>
                   orders'[i].status \in ListedTargets(orders[i].status)

\* C20 as stated: in every step, the startup seeding included, an order
\* enters the store pending and a status changes only along a listed
\* transition.
C20_EveryStepGuarded == [][StepGuarded]_vars

\* C20 amended: every step taken once the server listens is guarded in that
\* way; the startup seeding is not: it stores its three sample orders as
\* pending, confirmed and shipped, setting the status of the second and the
\* third without consulting the transition table.
C20_GuardedAfterSeeding ==
  [][ IF listening
        THEN StepGuarded
        ELSE listening' =>
               [i \in 1..Len(orders') |-> orders'[i].status]
                 = <<"pending", "confirmed", "shipped">>
    ]_vars

\* The seeded shipped order is still shipped, and an order created by a
\* request has been moved along the whole chain to delivered.
C20_Witness ==
  /\ listening
  /\ Len(orders) > NumSeeded
  /\ orders[NumSeeded].status = "shipped"
  /\ orders[NumSeeded + 1].status = "delivered"

(* --------------------------------- C21 --------------------------------- *)

\* The number of status updates that can still succeed on an order of
\* status s: the length of the longest chain of listed transitions from s.
Remaining(s) ==
  CASE s = "pending"    -> 4
    [] s = "confirmed"  -> 3
    [] s = "processing" -> 2
    [] s = "shipped"    -> 1
    [] s = "delivered"  -> 0
    [] s = "cancelled"  -> 0

\* C21: the transitions have no cycle.  Every change of an order's status,
\* and so every accepted status update, strictly lowers the number of
\* updates that can still succeed, which is 4 for a pending order; the order
\* never returns to a status it held (never to pending), at most 4 updates of
\* one order succeed, and when none can succeed any more every update of the
\* order is rejected.
C21_NoCycles ==
  [][ \A i \in 1..Len(orders) :
        LET s == orders[i].status
            t == orders'[i].status
        IN  /\ i <= Len(orders')
            /\ orders'[i].orderId = orders[i].orderId
            /\ t # s => Remaining(t) < Remaining(s) /\ t # "pending"
            /\ \A c \in DOMAIN slots :
                 (Handles(c, "status") /\ slots[c].req.orderId = orders[i].orderId) =>
                   /\ slots'[c].res.code = 200 => Remaining(t) < Remaining(s)
                   /\ Remaining(s) = 0 => slots'[c].res.code >= 400
    ]_vars

\* The order created by a request has been delivered by four accepted
\* updates, and an update of it back to pending was answered 409.
C21_Witness ==
  \E c \in DOMAIN slots :
    /\ Answered(c, "status")
    /\ slots[c].req.orderId = FirstCreated
    /\ slots[c].req.status = "pending"
    /\ slots[c].res.code = 409
    /\ OrdersHas(orders, FirstCreated)
    /\ OrdersGet(orders, FirstCreated).status = "delivered"

(* --------------------------------- C22 --------------------------------- *)

\* C22: an authenticated status update whose target is the status the order
\* has is answered 409 INVALID_STATUS_TRANSITION and leaves the store as it
\* is, whichever status that is; so the repeat of an accepted update is
\* rejected.
C22_SelfTransitionRejected ==
  [][ \A c \in DOMAIN slots :
        (/\ Handles(c, "status")
         /\ HasToken(slots[c].req)
         /\ OrdersHas(orders, slots[c].req.orderId)
         /\ slots[c].req.status = OrdersGet(orders, slots[c].req.orderId).status) =>
          /\ slots'[c].res.code = 409
          /\ slots'[c].res.error = "INVALID_STATUS_TRANSITION"
          /\ slots'[c].res.message =
               <<"Cannot transition from", slots[c].req.status,
                 "to", slots[c].req.status>>
          /\ orders' = orders
    ]_vars

\* The update to processing of the order created by a request, accepted
\* once with a reason, was repeated and answered 409.
C22_Witness ==
  \E c \in DOMAIN slots :
    /\ Answered(c, "status")
    /\ slots[c].req.orderId = FirstCreated
    /\ slots[c].req.status = "processing"
    /\ slots[c].res.code = 409
    /\ slots[c].res.message = <<"Cannot transition from", "processing", "to", "processing">>
    /\ OrdersHas(orders, FirstCreated)
    /\ OrdersGet(orders, FirstCreated).status = "processing"
    /\ OrdersGet(orders, FirstCreated).statusReason = "Payment processed"

(* --------------------------------- C23 --------------------------------- *)

\* C23: an accepted status update that carries a reason sets statusReason to
\* that reason; one that carries none leaves statusReason as it was, so a
\* reason given at an earlier transition stays on the order.
C23_ReasonSticky ==
  [][ \A c \in DOMAIN slots :
        (Handles(c, "status") /\ slots'[c].res.code = 200) =>
          LET id == slots[c].req.orderId
              reason == slots[c].req.reason
          IN  /\ OrdersHas(orders, id)
              /\ OrdersGet(orders', id).statusReason =
                   IF reason # "" THEN reason ELSE OrdersGet(orders, id).statusReason
              /\ slots'[c].res.body[1].statusReason = OrdersGet(orders', id).statusReason
    ]_vars

\* An update without a reason was accepted on an order that still carries
\* the reason of an earlier transition.
C23_Witness ==
  \E c \in DOMAIN slots :
    /\ Answered(c, "status")
    /\ slots[c].req.reason = ""
    /\ slots[c].req.status = "cancelled"
    /\ slots[c].res.code = 200
    /\ slots[c].res.body[1].statusReason = "Payment processed"
    /\ OrdersGet(orders, slots[c].req.orderId).statusReason = "Payment processed"

(* --------------------------------- C24 --------------------------------- *)

\* C24: no step changes the orderId, customerId, placementDate, items or
\* totalAmount of a stored order; status, lastUpdated and statusReason are
\* the only fields of an order that change.
C24_CreationFieldsFixed ==
  [][ \A i \in 1..Len(orders) :
        /\ i <= Len(orders')
        /\ Immutable(orders'[i]) = Immutable(orders[i])
    ]_vars

\* An order created by a request has been moved off pending at a later
\* instant and given a reason, and its other fields are those of the body
\* answered at its creation.
C24_Witness ==
  \E k \in DOMAIN original :
    /\ OrdersHas(orders, original[k].orderId)
    /\ LET o == OrdersGet(orders, original[k].orderId)
       IN  /\ o.status # original[k].status
           /\ o.lastUpdated > original[k].lastUpdated
           /\ o.statusReason # original[k].statusReason
           /\ Immutable(o) = Immutable(original[k])

(* --------------------------------- C25 --------------------------------- *)

\* C25: the store and the ledger only grow.  An order in the store stays in
\* the store in every later state, and an idempotency key of the ledger maps
\* to the same orderId in every later state.
C25_OnlyGrow ==
  [][ /\ \A i \in 1..Len(orders) : OrdersHas(orders', orders[i].orderId)
      /\ Len(orders') >= Len(orders)
      /\ \A k \in DOMAIN idempotencyKeys :
           /\ k \in DOMAIN idempotencyKeys'
           /\ idempotencyKeys'[k] = idempotencyKeys[k]
    ]_vars

\* Two keys are in the ledger, the first mapping to the first order created,
\* which has been cancelled and is still stored beside the second.
C25_Witness ==
  /\ Cardinality(DOMAIN idempotencyKeys) = 2
  /\ Len(orders) = NumSeeded + 2
  /\ \E k \in DOMAIN idempotencyKeys : idempotencyKeys[k] = FirstCreated
  /\ OrdersHas(orders, FirstCreated)
  /\ OrdersGet(orders, FirstCreated).status = "cancelled"

(* --------------------------------- C28 --------------------------------- *)

\* C28: in every reachable state every orderId of the ledger is that of a
\* stored order, no two keys map to one orderId, and the order in the body
\* of a replayed create (answered 200) is a stored order.
C28_LedgerPointsIntoStore ==
  /\ \A k \in DOMAIN idempotencyKeys :
       /\ OrdersHas(orders, idempotencyKeys[k])
       /\ \A k2 \in DOMAIN idempotencyKeys \ {k} :
            idempotencyKeys[k2] # idempotencyKeys[k]
  /\ \A c \in DOMAIN slots :
       (Answered(c, "create") /\ slots[c].res.code = 200) =>
         /\ Len(slots[c].res.body) = 1
         /\ OrdersHas(orders, slots[c].res.body[1].orderId)

\* With two keys in the ledger, a replay under the second key was answered
\* with the second order created.
C28_Witness ==
  \E c \in DOMAIN slots :
    /\ Answered(c, "create")
    /\ slots[c].res.code = 200
    /\ Cardinality(DOMAIN idempotencyKeys) = 2
    /\ idempotencyKeys[slots[c].req.idempotencyKey] = FirstCreated + 1
    /\ slots[c].res.body[1].orderId = FirstCreated + 1

(* --------------------------------- C27 --------------------------------- *)

\* Status updates of two different orders: of the first seeded order and of
\* the first order created by a request, accepted and rejected ones.
UpdatesOfSeeded ==
  {StatusReq(GoodAuth, FirstSeeded, "confirmed", ""),
   StatusReq(GoodAuth, FirstSeeded, "cancelled", "Out of stock"),
   StatusReq(GoodAuth, FirstSeeded, "shipped", ""),
   StatusReq(GoodAuth, FirstSeeded, "", "")}
UpdatesOfCreated ==
  {StatusReq(GoodAuth, FirstCreated, "confirmed", "Payment processed"),
   StatusReq(GoodAuth, FirstCreated, "cancelled", ""),
   StatusReq(GoodAuth, FirstCreated, "delivered", "")}

\* An order, and a response, without the timestamp of the last update.
Untimed(o) == [o EXCEPT !.lastUpdated = 0]
UntimedAll(s) == [i \in 1..Len(s) |-> Untimed(s[i])]

\* Handling r1 and then, an instant later, r2 gives the store and the two
\* responses that handling r2 and then r1 gives, apart from timestamps.
Commute(r1, r2) ==
  LET a == patchStatus(orders, r1, now)
      ab == patchStatus(a.orders, r2, now + 1)
      b == patchStatus(orders, r2, now)
      ba == patchStatus(b.orders, r1, now + 1)
  IN  /\ UntimedAll(ab.orders) = UntimedAll(ba.orders)
      /\ a.res.code = ba.res.code
      /\ a.res.message = ba.res.message
      /\ UntimedAll(a.res.body) = UntimedAll(ba.res.body)
      /\ b.res.code = ab.res.code
      /\ b.res.message = ab.res.message
      /\ UntimedAll(b.res.body) = UntimedAll(ab.res.body)

\* C27: an accepted status update of order o changes o and nothing else:
\* every other order is as it was, no order is added or removed, and the
\* ledger is untouched; and in every reachable state updates of two
\* different orders commute.
C27_UpdateTouchesOneOrder ==
  /\ [][ \A c \in DOMAIN slots :
            (Handles(c, "status") /\ HasToken(slots[c].req)) =>
              LET req == slots[c].req
                  step == patchStatus(orders, req, now)
              IN  /\ orders' = step.orders
                  /\ slots'[c].res = step.res
                  /\ idempotencyKeys' = idempotencyKeys
                  /\ Len(orders') = Len(orders)
                  /\ \A i \in 1..Len(orders) :
                       orders[i].orderId # req.orderId => orders'[i] = orders[i]
                  /\ step.res.code = 200 =>
                       OrdersGet(orders', req.orderId) # OrdersGet(orders, req.orderId)
        ]_vars
  /\ [](\A r1 \in UpdatesOfSeeded : \A r2 \in UpdatesOfCreated : Commute(r1, r2))

\* The first order created by a request was confirmed by an accepted
\* update while a second created order and the seeded orders are stored,
\* all of them still in the status they entered the store with.
C27_Witness ==
  \E c \in DOMAIN slots :
    /\ Answered(c, "status")
    /\ slots[c].req.orderId = FirstCreated
    /\ slots[c].res.code = 200
    /\ Len(orders) = NumSeeded + 2
    /\ orders[NumSeeded + 1].status = "confirmed"
    /\ orders[NumSeeded + 2].status = "pending"
    /\ [i \in 1..NumSeeded |-> orders[i].status] = <<"pending", "confirmed", "shipped">>

(* --------------------------------- C26 --------------------------------- *)

\* This step changes the status of the i-th order of the store it leaves: an
\* order stored before has another status than before, and an order that
\* enters the store has another status than the pending it is created with.
StatusChanged(i) ==
  IF i <= Len(orders)
    THEN orders'[i].status # orders[i].status
    ELSE orders'[i].status # "pending"

\* C26: every step that changes the status of an order, a status update as
\* well as the seeding, leaves the order's lastUpdated at the time of the
\* change; no step lowers an order's lastUpdated, and lastUpdated is never
\* before placementDate.
C26_EveryChangeStamped ==
  [][ \A i \in 1..Len(orders') :
        /\ StatusChanged(i) => orders'[i].lastUpdated = now'
        /\ i <= Len(orders) => orders'[i].lastUpdated >= orders[i].lastUpdated
        /\ orders'[i].lastUpdated >= orders'[i].placementDate
    ]_vars

(* --------------------------------- C29 --------------------------------- *)

\* C29: a search response never carries more orders than the limit it
\* echoes, and so never more than 100, whatever limit and offset were
\* requested.
C29_PageWithinLimit ==
  [][ \A c \in DOMAIN slots :
        (Handles(c, "search") /\ slots'[c].res.code = 200) =>
          /\ Len(slots'[c].res.body) <= 100
          /\ ~slots'[c].res.limit.nan =>
               Len(slots'[c].res.body) <= slots'[c].res.limit.n
    ]_vars

(* --------------------------------- C30 --------------------------------- *)

\* C30: get-by-id, search and health change neither the store nor the
\* ledger, whatever their answer; an authenticated get-by-id is answered 404
\* NOT_FOUND exactly when the id is not in the store and otherwise 200 with
\* the order as it is stored now.
C30_ReadsChangeNothing ==
  [][ \A c \in DOMAIN slots :
        /\ (Handles(c, "get") \/ Handles(c, "search") \/ Handles(c, "health")) =>
             /\ orders' = orders
             /\ idempotencyKeys' = idempotencyKeys
             /\ uuidCount' = uuidCount
        /\ (Handles(c, "get") /\ HasToken(slots[c].req)) =>
             IF \E i \in 1..Len(orders) : orders[i].orderId = slots[c].req.orderId
               THEN /\ slots'[c].res.code = 200
                    /\ Len(slots'[c].res.body) = 1
                    /\ \E i \in 1..Len(orders) : slots'[c].res.body[1] = orders[i]
                    /\ slots'[c].res.body[1].orderId = slots[c].req.orderId
               ELSE /\ slots'[c].res.code = 404
                    /\ slots'[c].res.error = "NOT_FOUND"
                    /\ slots'[c].res.body = <<>>
    ]_vars

\* A get of the order created by a request was answered with the order as
\* confirmed by an earlier status update, at a later instant than its
\* creation.
C30_Witness ==
  \E c \in DOMAIN slots :
    /\ Answered(c, "get")
    /\ slots[c].req.orderId = FirstCreated
    /\ slots[c].res.code = 200
    /\ slots[c].res.body[1].status = "confirmed"
    /\ slots[c].res.body[1].lastUpdated > slots[c].res.body[1].placementDate
    /\ slots[c].res.body[1] = orders[NumSeeded + 1]

====
